---- MODULE Spec2Model ----
(***************************************************************************)
(* The three automation scripts of the repository as one state machine:    *)
(*   roster  - .github/workflows/jira_group_users.py                       *)
(*   restore - .github/workflows/restore_user.py (and src/restore_user.py, *)
(*             the same code with the configuration hardcoded)             *)
(*   audit   - .github/workflows/fetch_audit_logs.py                       *)
(* Every script is sequential; one step of the model is the local          *)
(* computation up to and including one remote call and the handling of its *)
(* response.  The remote services are the environment: what they hold is   *)
(* chosen when a script first asks for it, and every remote call may come  *)
(* back with a non-success status.                                         *)
(*                                                                         *)
(* Python values are encoded as integers: None is -1, the empty string is  *)
(* 0, an account id is a positive number and the email address of account  *)
(* i is EmailOf(i) <= -2.  A dict is a record; a key the dict does not     *)
(* have is a field the record does not have.                               *)
(***************************************************************************)
EXTENDS Integers, Sequences, FiniteSets, TLC

VARIABLES
    script,             \* which script this run executes
    pc,                 \* position of the script
    env,                \* the process environment: variable -> "unset", "empty", "set"
    calls,              \* the remote calls issued so far, in order
    start_at,           \* start_at of the paging loop in progress (roster, restore)
    \* ---- the remote services
    srvIsLast,          \* how the group/member endpoint reports isLast
    srvGroups,          \* group name -> members the Jira site holds (groups asked for so far)
    srvDir,             \* account id -> what the admin directory answers (once asked)
    \* ---- jira_group_users.py
    gi,                 \* index in GroupNames of the get_users_in_group call in progress
    users,              \* users accumulated by the paging loop in progress
    fetched,            \* the lists returned by the completed get_users_in_group calls
    managers,           \* role buckets of main
    all_contributors,
    all_viewers,
    user_groups,        \* accountId -> set of group names
    unique_account_ids,
    account_ids_list,
    batch_i,            \* loop variable i of fetch_emails_in_batches
    email_map,
    rows,               \* the table rows drawn, per section
    temp_ids,           \* handles returned by upload_temp_file_jsm
    \* ---- restore_user.py
    srvUsers,           \* the user directory the users/search endpoint serves (once asked)
    found_account_id,
    scanned,            \* users examined by the loop of fetch_account_id so far
    output_lines,
    result_file,        \* contents of result.txt, <<"absent">> until written
    \* ---- fetch_audit_logs.py
    srvAudit,           \* product -> number of audit records it holds (once asked)
    offset,             \* offset (Jira) or start (Confluence) of the paging loop in progress
    records,            \* records accumulated by the paging loop in progress
    jira_records,
    confluence_records,
    files,              \* the CSV files written
    \* ---- the table renderer of jira_group_users.py
    pdf_x,              \* the cursor of the document, in millimetres
    pdf_y,
    drawn               \* the table rows drawn so far: cursor advance and cell boxes

rosterVars == <<srvIsLast, srvGroups, srvDir, gi, users, fetched, managers,
                all_contributors, all_viewers, user_groups, unique_account_ids,
                account_ids_list, batch_i, email_map, rows, temp_ids>>

restoreVars == <<srvUsers, found_account_id, scanned, output_lines, result_file>>

auditVars == <<srvAudit, offset, records, jira_records, confluence_records, files>>

tableVars == <<pdf_x, pdf_y, drawn>>

vars == <<script, pc, env, calls, start_at, rosterVars, restoreVars, auditVars, tableVars>>

-----------------------------------------------------------------------------
(* Bounds of the model *)

MaxMembers == 201       \* largest group the Jira site holds
MaxSmall == 2           \* user records with arbitrary fields over all five groups
MaxPages == 6           \* pages one paging loop may request before the model stops it
MaxPerm == 2            \* sets up to this size are listed in every order
MaxHandles == 2         \* temporary attachment handles one upload returns

(* Program constants *)

None == -1
EmptyStr == 0
max_results == 50
chunk_size == 100

-----------------------------------------------------------------------------
(* Python helpers *)

Min(a, b) == IF a <= b THEN a ELSE b

\* truth value of a string-or-None
Truthy(x) == x # None /\ x # EmptyStr

\* dict.get(key, default)
Get(d, key, default) == IF key \in DOMAIN d THEN d[key] ELSE default

\* x or y
Or(x, y) == IF Truthy(x) THEN x ELSE y

\* -(-n // d)
CeilDiv(n, d) == (n + d - 1) \div d

Range(s) == {s[i] : i \in DOMAIN s}

MapSeq(Op(_), s) == [i \in DOMAIN s |-> Op(s[i])]

\* Step applied to acc and s[lo], ..., s[hi] in turn (halving, so that a long
\* list does not nest deeply)
RECURSIVE FoldLeft(_, _, _, _, _)
FoldLeft(Step(_, _), acc, s, lo, hi) ==
    IF lo > hi THEN acc
    ELSE IF lo = hi THEN Step(acc, s[lo])
    ELSE LET mid == (lo + hi) \div 2
             left == FoldLeft(Step, acc, s, lo, mid)
         IN  \* the test makes TLC compute left before it goes on
             IF left = left THEN FoldLeft(Step, left, s, mid + 1, hi) ELSE acc

EmailOf(id) == -1 - id

\* os.environ.get(name, default): truthy iff set non-empty, or unset with a truthy default
EnvTruthy(e, name, hasDefault) ==
    \/ e[name] = "set"
    \/ e[name] = "unset" /\ hasDefault

\* one entry of the log of remote calls
Call(ep, key, at, ids, ok, n, last) ==
    [ep |-> ep, key |-> key, at |-> at, ids |-> ids, ok |-> ok, n |-> n, last |-> last]

-----------------------------------------------------------------------------
(* jira_group_users.py *)

RosterEnvVars == {"JIRA_SITE", "BASIC_AUTH", "BEARER_TOKEN", "PROJECT_KEY", "ISSUE_KEY", "ORG_ID"}
RosterEnvDefaults == {"JIRA_SITE", "ORG_ID"}

\* The environments a run may start in.  A variable with a default is unset
\* (the default is used) or set to the empty string; a value of its own
\* behaves as the default does.
RosterEnvs ==
    {e \in [RosterEnvVars -> {"unset", "empty", "set"}] :
        \A v \in RosterEnvDefaults : e[v] # "set"}

\* ATLASSIAN-{project_key}-MANAGERS, ..., in the order main fetches them
GroupNames == <<"MANAGERS", "CONTRIBUTORS", "EXTERNAL-CONTRIBUTORS", "VIEWERS", "EXTERNAL-VIEWERS">>

\* User objects the group/member endpoint may report: with an account id, with
\* an empty account id, with no accountId key at all.
SmallUsers ==
    { [accountId |-> 1, displayName |-> 1],
      [accountId |-> 2, displayName |-> 2],
      [accountId |-> EmptyStr, displayName |-> 3],
      [displayName |-> 4] }

SeqsUpTo(S, n) == UNION {[1..k -> S] : k \in 0..n}

\* a group of n distinct members with account ids 1..n
BigGroup(n) == [i \in 1..n |-> [accountId |-> i, displayName |-> i]]

\* number of user records fetched so far
FetchedCount(f) == IF f = <<>> THEN 0 ELSE
    LET RECURSIVE Sum(_)
        Sum(k) == IF k = 0 THEN 0 ELSE Len(f[k]) + Sum(k - 1)
    IN Sum(Len(f))

\* What the site may hold for the group asked for next: any short list of user
\* objects while the run has seen fewer than MaxSmall records, or (the first
\* group) any number of distinct well-formed members.
GroupChoices(g, f) ==
    SeqsUpTo(SmallUsers, IF FetchedCount(f) >= MaxSmall THEN 0 ELSE MaxSmall - FetchedCount(f))
    \cup (IF g = 1 THEN {BigGroup(n) : n \in 0..MaxMembers} ELSE {})

\* the page of `members` a request with startAt = at, maxResults = size is served
Page(members, at, size) == SubSeq(members, at + 1, Min(at + size, Len(members)))

\* the response's JSON body: "isLast" is exact, left out, or always false
GroupResponse(members, at, size, mode) ==
    LET body == [values |-> Page(members, at, size)]
    IN  CASE mode = "exact"  -> body @@ [isLast |-> (at + size >= Len(members))]
          [] mode = "never"  -> body @@ [isLast |-> FALSE]
          [] mode = "absent" -> body

\* line 33: data.get("isLast", True)
IsLast(data) == Get(data, "isLast", TRUE)

NextStartAt_SkipsOne(at) == at + max_results + 1

\* line 36: start_at += max_results
NextStartAt(at) == at + max_results

\* lines 27-31: the record appended for one reported user
UserRecord(user) ==
    [accountId |-> Get(user, "accountId", None), displayName |-> Get(user, "displayName", EmptyStr)]

\* the state of a script that has not run
RosterIdle ==
    /\ srvGroups = <<>> /\ srvDir = <<>>
    /\ gi = 1 /\ users = <<>> /\ fetched = <<>>
    /\ managers = <<>> /\ all_contributors = <<>> /\ all_viewers = <<>>
    /\ user_groups = <<>> /\ unique_account_ids = {} /\ account_ids_list = <<>>
    /\ batch_i = 0 /\ email_map = <<>> /\ rows = <<>> /\ temp_ids = <<>>

RestoreIdle ==
    /\ srvUsers = <<>>
    /\ found_account_id = None
    /\ scanned = 0
    /\ output_lines = <<>>
    /\ result_file = <<"absent">>

AuditIdle ==
    /\ srvAudit = <<>>
    /\ offset = 0
    /\ records = <<>>
    /\ jira_records = <<>>
    /\ confluence_records = <<>>
    /\ files = {}

\* main, lines 252-266: read the environment, fail on a missing variable
RosterStart ==
    /\ script = "roster" /\ pc = "start"
    /\ pc' = IF \A v \in RosterEnvVars : EnvTruthy(env, v, v \in RosterEnvDefaults)
             THEN "fetch" ELSE "config_error"
    /\ UNCHANGED <<script, tableVars, env, calls, start_at, rosterVars, restoreVars, auditVars>>

\* get_users_in_group, lines 16-38: one iteration of the paging loop
GetUsersPage ==
    /\ script = "roster" /\ pc = "fetch"
    /\ start_at < MaxPages * max_results
    /\ \/ \* resp.raise_for_status() raises
          /\ calls' = Append(calls, Call("group_member", GroupNames[gi], start_at, <<>>, FALSE, 0, FALSE))
          /\ pc' = "aborted"
          /\ UNCHANGED <<script, tableVars, env, start_at, rosterVars, restoreVars, auditVars>>
       \/ \E members \in (IF gi \in DOMAIN srvGroups THEN {srvGroups[gi]}
                          ELSE GroupChoices(gi, fetched)) :
          LET data == GroupResponse(members, start_at, max_results, srvIsLast)
              got == users \o MapSeq(UserRecord, Get(data, "values", <<>>))
              last == IsLast(data)
          IN  /\ srvGroups' = IF gi \in DOMAIN srvGroups THEN srvGroups
                              ELSE Append(srvGroups, members)
              /\ calls' = Append(calls, Call("group_member", GroupNames[gi], start_at, <<>>,
                                             TRUE, Len(data.values), last))
              /\ IF last
                 THEN /\ fetched' = Append(fetched, got)
                      /\ users' = <<>>
                      /\ start_at' = 0
                      /\ gi' = gi + 1
                      /\ pc' = IF gi = Len(GroupNames) THEN "aggregate" ELSE "fetch"
                 ELSE /\ users' = got
                      /\ start_at' = NextStartAt(start_at)
                      /\ UNCHANGED <<fetched, gi, pc>>
              /\ UNCHANGED <<script, tableVars, env, srvIsLast, srvDir, managers, all_contributors,
                             all_viewers, user_groups, unique_account_ids, account_ids_list,
                             batch_i, email_map, rows, temp_ids, restoreVars, auditVars>>

AddGroupOfUser_Overwrites(ug, u, full_group_name) ==
    LET acct_id == Get(u, "accountId", None)
    IN  IF ~Truthy(acct_id) THEN ug
        ELSE (acct_id :> {full_group_name}) @@ ug

\* add_group_name, lines 298-302: the body of its loop for user u
AddGroupOfUser(ug, u, full_group_name) ==
    LET acct_id == Get(u, "accountId", None)
    IN  IF ~Truthy(acct_id) THEN ug
        ELSE IF acct_id \notin DOMAIN ug
             THEN (acct_id :> {full_group_name}) @@ ug
             ELSE [ug EXCEPT ![acct_id] = @ \cup {full_group_name}]

\* add_group_name, lines 296-302
add_group_name(ug, user_list, full_group_name) ==
    FoldLeft(LAMBDA acc, u : AddGroupOfUser(acc, u, full_group_name), ug, user_list,
             1, Len(user_list))

\* lines 304-308: the membership index after the five add_group_name calls
RECURSIVE GroupIndex(_, _)
GroupIndex(f, k) ==
    IF k = 0 THEN <<>>
    ELSE add_group_name(GroupIndex(f, k - 1), f[k], GroupNames[k])

UniqueAccountIds_Unfiltered(all) == {all[i].accountId : i \in DOMAIN all}

\* lines 313-317: the set comprehension over managers + all_contributors + all_viewers
UniqueAccountIds(all) ==
    {all[i].accountId : i \in {j \in DOMAIN all : Truthy(all[j].accountId)}}

Perms(S) == {p \in [1..Cardinality(S) -> S] : \A x \in S : \E i \in DOMAIN p : p[i] = x}

Ascending(S) == SelectSeq([i \in 1..(MaxMembers + 1) |-> i], LAMBDA x : x \in S)

Reverse(s) == [i \in DOMAIN s |-> s[Len(s) + 1 - i]]

\* line 320, list(unique_account_ids): a set has no order of its own
SetToSeqs(S) ==
    IF Cardinality(S) <= MaxPerm THEN Perms(S)
    ELSE {Ascending(S), Reverse(Ascending(S))}

\* main, lines 288-320: role buckets, membership index, unique ids
Aggregate ==
    /\ script = "roster" /\ pc = "aggregate"
    /\ managers' = fetched[1]
    /\ all_contributors' = fetched[2] \o fetched[3]
    /\ all_viewers' = fetched[4] \o fetched[5]
    /\ user_groups' = GroupIndex(fetched, Len(GroupNames))
    /\ unique_account_ids' = UniqueAccountIds(managers' \o all_contributors' \o all_viewers')
    /\ account_ids_list' \in SetToSeqs(unique_account_ids')
    /\ batch_i' = 0
    /\ email_map' = <<>>
    /\ pc' = "emails"
    /\ UNCHANGED <<script, tableVars, env, calls, srvIsLast, srvGroups, srvDir, gi, start_at, users,
                   fetched, rows, temp_ids, restoreVars, auditVars>>

\* What the admin directory may answer for an account: no entry, an entry
\* whose email is null, an entry with the account's email.
DirKinds == {"none", "null", "email"}

DirChoices(ids) ==
    IF Cardinality(ids) <= MaxPerm THEN [ids -> DirKinds]
    ELSE { [x \in ids |-> "email"],
           [x \in ids |-> IF x % 3 = 0 THEN "none" ELSE IF x % 3 = 1 THEN "null" ELSE "email"] }

\* the "data" array answered for one chunk
DirResponse(dir, chunk) ==
    MapSeq(LAMBDA x : [accountId |-> x, email |-> IF dir[x] = "email" THEN EmailOf(x) ELSE None],
           SelectSeq(chunk, LAMBDA x : dir[x] # "none"))

\* lines 66-69: one entry of a response into email_map
StoreEmail(em, entry) ==
    LET acct_id == Get(entry, "accountId", None)
        email == Or(Get(entry, "email", None), EmptyStr)
    IN  IF Truthy(acct_id) THEN (acct_id :> email) @@ em ELSE em

\* lines 65-69: the entries of one response into email_map
StoreEmails(em, data) == FoldLeft(StoreEmail, em, data, 1, Len(data))

Chunk_OneMore(account_ids, i) ==
    SubSeq(account_ids, i + 1, Min(i + chunk_size + 1, Len(account_ids)))

\* line 56: account_ids[i : i + chunk_size]
Chunk(account_ids, i) == SubSeq(account_ids, i + 1, Min(i + chunk_size, Len(account_ids)))

\* a loop that leaves the last batch out
BatchesDone_StopsEarly(account_ids, i) == i + chunk_size >= Len(account_ids)

\* fetch_emails_in_batches, line 55: range(0, len(account_ids), chunk_size) is exhausted
BatchesDone(account_ids, i) == i >= Len(account_ids)

\* fetch_emails_in_batches, lines 55-69: one iteration of the batch loop
FetchEmailsBatch ==
    /\ script = "roster" /\ pc = "emails"
    /\ ~BatchesDone(account_ids_list, batch_i)
    /\ LET chunk == Chunk(account_ids_list, batch_i)
       IN  \/ \* resp.raise_for_status() raises
              /\ calls' = Append(calls, Call("users_search", "", batch_i, chunk, FALSE, 0, FALSE))
              /\ pc' = "aborted"
              /\ UNCHANGED <<script, tableVars, env, start_at, rosterVars, restoreVars, auditVars>>
           \/ \E dir \in (IF srvDir # <<>> THEN {srvDir}
                          ELSE DirChoices(Range(account_ids_list))) :
              LET data == DirResponse(dir, chunk)
              IN  /\ srvDir' = dir
                  /\ calls' = Append(calls, Call("users_search", "", batch_i, chunk, TRUE,
                                                 Len(data), FALSE))
                  /\ email_map' = StoreEmails(email_map, data)
                  /\ batch_i' = batch_i + chunk_size
                  /\ UNCHANGED <<script, tableVars, pc, env, srvIsLast, srvGroups, gi, start_at, users,
                                 fetched, managers, all_contributors, all_viewers, user_groups,
                                 unique_account_ids, account_ids_list, rows, temp_ids,
                                 restoreVars, auditVars>>

\* attach_email, lines 324-328
attach_email(user_list, em) ==
    [i \in DOMAIN user_list |->
        LET user == user_list[i]
            acct_id == Get(user, "accountId", None)
        IN  IF Truthy(acct_id)
            THEN [emailAddress |-> Get(em, acct_id, EmptyStr)] @@ user
            ELSE user]

\* the group names in the order sorted() puts them
SortedGroupNames == <<"CONTRIBUTORS", "EXTERNAL-CONTRIBUTORS", "EXTERNAL-VIEWERS", "MANAGERS", "VIEWERS">>

\* sorted(user_list, key=displayName.lower()): a stable insertion sort (the
\* display names of the model carry no upper-case letters)
RECURSIVE InsertByName(_, _)
InsertByName(s, u) ==
    IF s = <<>> \/ Get(s[Len(s)], "displayName", EmptyStr) <= Get(u, "displayName", EmptyStr)
    THEN Append(s, u)
    ELSE Append(InsertByName(SubSeq(s, 1, Len(s) - 1), u), s[Len(s)])

SortedByName(user_list) == FoldLeft(InsertByName, <<>>, user_list, 1, Len(user_list))

\* section_table, lines 167-176: the texts of one user's row
RowTexts(u, ug) ==
    LET name == Or(Get(u, "displayName", None), EmptyStr)
        acct_id == Get(u, "accountId", EmptyStr)
        email == Or(Get(u, "emailAddress", EmptyStr), acct_id)
        group_set == Get(ug, acct_id, {})
    IN  [name |-> name, email |-> email,
         groups |-> SelectSeq(SortedGroupNames, LAMBDA g : g \in group_set)]

\* section_table, lines 165-177: the rows of one section
section_table(user_list, ug) ==
    MapSeq(LAMBDA u : RowTexts(u, ug), SortedByName(user_list))

\* main, lines 323-339: attach the emails, lay out the three sections
AttachAndRender ==
    /\ script = "roster" /\ pc = "emails"
    /\ BatchesDone(account_ids_list, batch_i)
    /\ managers' = attach_email(managers, email_map)
    /\ all_contributors' = attach_email(all_contributors, email_map)
    /\ all_viewers' = attach_email(all_viewers, email_map)
    /\ rows' = <<section_table(managers', user_groups),
                 section_table(all_contributors', user_groups),
                 section_table(all_viewers', user_groups)>>
    /\ pc' = "upload"
    /\ UNCHANGED <<script, tableVars, env, calls, srvIsLast, srvGroups, srvDir, gi, start_at, users,
                   fetched, user_groups, unique_account_ids, account_ids_list, batch_i,
                   email_map, temp_ids, restoreVars, auditVars>>

\* upload_temp_file_jsm, lines 199-220
UploadTempFile ==
    /\ script = "roster" /\ pc = "upload"
    /\ \/ /\ calls' = Append(calls, Call("attachTemporaryFile", "", 0, <<>>, FALSE, 0, FALSE))
          /\ pc' = "aborted"
          /\ UNCHANGED <<script, tableVars, env, start_at, rosterVars, restoreVars, auditVars>>
       \/ \E k \in 0..MaxHandles :
          /\ temp_ids' = [i \in 1..k |-> i]
          /\ calls' = Append(calls, Call("attachTemporaryFile", "", 0, <<>>, TRUE, k, FALSE))
          /\ pc' = "attach"
          /\ UNCHANGED <<script, tableVars, env, srvIsLast, srvGroups, srvDir, gi, start_at, users,
                         fetched, managers, all_contributors, all_viewers, user_groups,
                         unique_account_ids, account_ids_list, batch_i, email_map, rows,
                         restoreVars, auditVars>>

\* attach_temp_file_to_request, lines 228-245
AttachTempFile ==
    /\ script = "roster" /\ pc = "attach"
    /\ \E ok \in BOOLEAN :
          /\ calls' = Append(calls, Call("attachment", "", 0, temp_ids, ok, 0, FALSE))
          /\ pc' = IF ok THEN "done" ELSE "aborted"
    /\ UNCHANGED <<script, tableVars, env, start_at, rosterVars, restoreVars, auditVars>>

-----------------------------------------------------------------------------
(* restore_user.py *)

MaxSearchPages == 2     \* full pages of users the directory holds, at most

search_max_results == 50

RestoreEnvVars == {"JIRA_BASE_URL", "JIRA_USERNAME", "JIRA_API_TOKEN", "TARGET_EMAIL"}

\* the workflow supplies them all; the script validates none of them
RestoreEnvs == {[v \in RestoreEnvVars |-> "set"]}

\* An email address is its spelling in lower case and whether the spelling
\* at hand has upper-case letters; str.lower() drops them.
Email(name, upper) == [name |-> name, upper |-> upper]
Lower(e) == [e EXCEPT !.upper = FALSE]
EmptyEmail == Email("", FALSE)
TARGET_EMAIL == Email("target", TRUE)

\* the numbers of users a directory may hold: around every multiple of the
\* page size, and 20 more (120 users are 2 full pages and 20)
DirectorySizes ==
    {n \in {k * search_max_results + e : k \in 0..MaxSearchPages, e \in {-1, 0, 1, 20}} : n >= 0}

MaxDir == (MaxSearchPages + 1) * search_max_results

\* The directories the site may hold: `total` users, account ids 1..total;
\* user `match` (if not 0) has the target's email, spelled in upper case or
\* not, with an accountId or without; `later` adds a second user with the
\* target's email, the last one.  Every other user has another email or a
\* hidden one.
Directories ==
    {d \in [total : DirectorySizes, match : 0..MaxDir, hasId : BOOLEAN, upper : BOOLEAN,
            later : BOOLEAN] :
        /\ d.match <= d.total
        /\ d.match = 0 => d.hasId /\ ~d.upper
        /\ d.later => ~d.hasId /\ d.match < d.total
        /\ ~d.hasId => ~d.upper}

UserAt(d, i) ==
    IF i = d.match
    THEN IF d.hasId THEN [accountId |-> i, emailAddress |-> Email("target", d.upper)]
         ELSE [emailAddress |-> Email("target", d.upper)]
    ELSE IF d.later /\ i = d.total THEN [accountId |-> i, emailAddress |-> Email("target", FALSE)]
    ELSE IF i % 2 = 0 THEN [accountId |-> i]
    ELSE [accountId |-> i, emailAddress |-> Email("other", FALSE)]

\* the page a request with startAt = at, maxResults = size is served
SearchPageOf(d, at, size) ==
    IF at >= d.total THEN <<>>
    ELSE [i \in 1..(Min(at + size, d.total) - at) |-> UserAt(d, at + i)]

\* lines 40-41: does this user's email equal the target's, case ignored
EmailMatches(user) == Lower(Get(user, "emailAddress", EmptyEmail)) = Lower(TARGET_EMAIL)

\* lines 39-43: the index of the user the for loop breaks at, 0 when it runs to the end
FirstMatch(page) ==
    LET M == {j \in DOMAIN page : EmailMatches(page[j])}
    IN  IF M = {} THEN 0 ELSE CHOOSE j \in M : \A k \in M : j <= k

\* line 44: if found_account_id: break
StopSearch(found) == Truthy(found)

NotFound_OnlyNone(account_id) == account_id = None

\* line 61: if not account_id
NotFound(account_id) == ~Truthy(account_id)

\* lines 6-12: the configuration is read, main calls fetch_account_id
RestoreStart ==
    /\ script = "restore" /\ pc = "start"
    /\ pc' = "search"
    /\ UNCHANGED <<script, tableVars, env, calls, start_at, rosterVars, restoreVars, auditVars>>

\* fetch_account_id, lines 32-47: one iteration of the paging loop
SearchPage ==
    /\ script = "restore" /\ pc = "search"
    /\ \/ \* response.raise_for_status() raises
          /\ calls' = Append(calls, Call("users_search_page", "", start_at, <<>>, FALSE, 0, FALSE))
          /\ pc' = "aborted"
          /\ UNCHANGED <<script, tableVars, env, start_at, rosterVars, restoreVars, auditVars>>
       \/ \E d \in (IF srvUsers # <<>> THEN {srvUsers[1]} ELSE Directories) :
          LET page == SearchPageOf(d, start_at, search_max_results)
              j == FirstMatch(page)
              found == IF j > 0 THEN Get(page[j], "accountId", EmptyStr) ELSE found_account_id
          IN  /\ srvUsers' = <<d>>
              /\ calls' = Append(calls, Call("users_search_page", "", start_at, <<>>, TRUE,
                                             Len(page), FALSE))
              /\ IF page = <<>>
                 THEN /\ pc' = "lookup_done"
                      /\ UNCHANGED <<found_account_id, scanned, start_at>>
                 ELSE /\ found_account_id' = found
                      /\ scanned' = scanned + (IF j > 0 THEN j ELSE Len(page))
                      /\ IF StopSearch(found)
                         THEN pc' = "lookup_done" /\ UNCHANGED start_at
                         ELSE start_at' = start_at + search_max_results /\ UNCHANGED pc
              /\ UNCHANGED <<script, tableVars, env, output_lines, result_file, rosterVars, auditVars>>

\* main, lines 61-70 and 89-90: the account was not found
ReportNotFound ==
    /\ script = "restore" /\ pc = "lookup_done"
    /\ NotFound(found_account_id)
    /\ output_lines' = <<"not_found_message">>
    /\ result_file' = output_lines'
    /\ pc' = "done"
    /\ UNCHANGED <<script, tableVars, env, calls, start_at, srvUsers, found_account_id, scanned,
                   rosterVars, auditVars>>

\* main, lines 71-90, and restore_access, lines 49-56: the status of the
\* response is reported, whatever it is
RestoreAccess ==
    /\ script = "restore" /\ pc = "lookup_done"
    /\ ~NotFound(found_account_id)
    /\ \E ok \in BOOLEAN, json \in BOOLEAN :
          /\ calls' = Append(calls, Call("restore_access", "", 0, <<found_account_id>>, ok, 0, FALSE))
          /\ output_lines' = <<"found_account_id",
                               IF ok THEN "status_success" ELSE "status_failure",
                               IF json THEN "response_json" ELSE "response_text">>
    /\ result_file' = output_lines'
    /\ pc' = "done"
    /\ UNCHANGED <<script, tableVars, env, start_at, srvUsers, found_account_id, scanned,
                   rosterVars, auditVars>>

-----------------------------------------------------------------------------
(* fetch_audit_logs.py *)

MaxAuditPages == 2      \* full pages of audit records a product holds, at most

limit == 1000

AuditEnvVars == {"JIRA_BASIC_TOKEN", "GOOGLE_CLOUD_BUCKET", "GOOGLE_CLOUD_FOLDER"}

AuditEnvs == [AuditEnvVars -> {"unset", "empty", "set"}]

\* the numbers of records a product may hold: around every multiple of the page size
AuditSizes == {n \in {k * limit + e : k \in 0..MaxAuditPages, e \in {-1, 0, 1}} : n >= 0}

\* the records a request with offset off and limit lim is served, of n held
AuditPage(n, off, lim) ==
    IF off >= n THEN <<>> ELSE [i \in 1..(Min(off + lim, n) - off) |-> off + i]

\* write_csv, lines 106-122: no file for no records
write_csv(fs, recs, filename) == IF recs = <<>> THEN fs ELSE fs \cup {filename}

\* main, lines 132-136, and fetch_jira_audit_logs, lines 21-23
AuditStart ==
    /\ script = "audit" /\ pc = "start"
    /\ pc' = IF EnvTruthy(env, "JIRA_BASIC_TOKEN", FALSE) THEN "jira" ELSE "config_error"
    /\ UNCHANGED <<script, tableVars, env, calls, start_at, rosterVars, restoreVars, auditVars>>

\* a loop that also stops on a full page
LastBatch_Inclusive(batch) == Len(batch) <= limit

\* if len(batch) < limit: break, lines 53-54 and 99-100
LastBatch(batch) == Len(batch) < limit

\* one iteration of a paging loop (lines 40-56, lines 82-102) for product k,
\* and what main does when the loop ends
AuditFetchPage(k, ep, here, next) ==
    /\ script = "audit" /\ pc = here
    /\ \/ \* response.status_code != 200
          /\ calls' = Append(calls, Call(ep, "", offset, <<>>, FALSE, 0, FALSE))
          /\ pc' = "aborted"
          /\ UNCHANGED <<script, tableVars, env, start_at, rosterVars, restoreVars, auditVars>>
       \/ \E n \in (IF k \in DOMAIN srvAudit THEN {srvAudit[k]} ELSE AuditSizes) :
          LET batch == AuditPage(n, offset, limit)
              got == records \o batch
          IN  /\ srvAudit' = IF k \in DOMAIN srvAudit THEN srvAudit ELSE Append(srvAudit, n)
              /\ calls' = Append(calls, Call(ep, "", offset, <<>>, TRUE, Len(batch), FALSE))
              /\ IF LastBatch(batch)
                 THEN /\ records' = <<>>
                      /\ offset' = 0
                      /\ jira_records' = IF k = 1 THEN got ELSE jira_records
                      /\ confluence_records' = IF k = 2 THEN got ELSE confluence_records
                      /\ files' = write_csv(files, got, ep)
                      /\ pc' = next
                 ELSE /\ records' = got
                      /\ offset' = offset + limit
                      /\ UNCHANGED <<jira_records, confluence_records, files, pc>>
              /\ UNCHANGED <<script, tableVars, env, start_at, rosterVars, restoreVars>>

\* fetch_jira_audit_logs, lines 40-58; main, lines 137-142; the token check
\* of fetch_confluence_audit_logs, lines 63-65
AuditJiraPage ==
    AuditFetchPage(1, "jira_audit", "jira",
                   IF EnvTruthy(env, "JIRA_BASIC_TOKEN", FALSE) THEN "confluence" ELSE "config_error")

\* fetch_confluence_audit_logs, lines 82-104; main, lines 143-150
AuditConfluencePage ==
    AuditFetchPage(2, "confluence_audit", "confluence",
                   IF EnvTruthy(env, "GOOGLE_CLOUD_BUCKET", FALSE) THEN "upload_jira" ELSE "config_error")

\* upload_to_gcs, lines 124-129: a file that was never written cannot be uploaded
AuditUpload(file, here, next) ==
    /\ script = "audit" /\ pc = here
    /\ IF file \notin files
       THEN pc' = "aborted" /\ UNCHANGED calls
       ELSE \E ok \in BOOLEAN :
               /\ calls' = Append(calls, Call("gcs_upload", file, 0, <<>>, ok, 0, FALSE))
               /\ pc' = IF ok THEN next ELSE "aborted"
    /\ UNCHANGED <<script, tableVars, env, start_at, rosterVars, restoreVars, auditVars>>

\* main, lines 156-157
AuditUploadJira == AuditUpload("jira_audit", "upload_jira", "upload_confluence")
AuditUploadConfluence == AuditUpload("confluence_audit", "upload_confluence", "done")

-----------------------------------------------------------------------------
(* The table renderer of jira_group_users.py *)

MaxRows == 2            \* user rows of a section, at most

line_height == 6

\* generate_pdf_with_wrapping_tables, line 147
col_widths == <<45, 55, 90>>

\* A cell text is modelled by the width, in millimetres, get_string_width
\* measures for it in the current font: an empty text, texts of one line and
\* texts that wrap
TextWidths == {0, 30, 60, 100}

\* the measured widths of the header texts "Name", "Email", "Groups" in bold
HeaderTexts == <<10, 11, 14>>

Max(a, b) == IF a >= b THEN a ELSE b

\* nb_lines, lines 78-90
nb_lines(text, col_width) ==
    LET effective_width == col_width - 4
    IN  IF effective_width <= 0 THEN 1 ELSE CeilDiv(text, effective_width)

\* pdf.multi_cell(w, line_height, text, border=1), line 114: the lines the
\* library breaks the text into inside a cell of width w (the cell margin of
\* 1 mm on either side left out), one line for an empty text; the bordered
\* box it draws is that many lines tall
multi_cell_lines(text, w) == Max(1, CeilDiv(text, w - 2))

\* table_row, lines 101-105: the loop that finds the largest line count
RECURSIVE MaxNumLines(_, _, _)
MaxNumLines(col_texts, widths, i) ==
    IF i = 0 THEN 1
    ELSE Max(MaxNumLines(col_texts, widths, i - 1), nb_lines(col_texts[i], widths[i]))

\* the x position after the first i columns, lines 110-118
RECURSIVE ColumnX(_, _, _)
ColumnX(x0, widths, i) == IF i = 0 THEN x0 ELSE ColumnX(x0, widths, i - 1) + widths[i]

\* table_row, lines 93-126: the boxes drawn and where the cursor ends
table_row(x0, y0, col_texts, widths) ==
    LET max_num_lines == MaxNumLines(col_texts, widths, Len(col_texts))
        row_height == max_num_lines * line_height
    IN  [col_texts |-> col_texts,
         y0 |-> y0,
         cells |-> [i \in DOMAIN col_texts |->
                       [x |-> ColumnX(x0, widths, i - 1), y |-> y0, w |-> widths[i],
                        h |-> multi_cell_lines(col_texts[i], widths[i]) * line_height]],
         x |-> x0,
         y |-> y0 + row_height]

\* the document after add_page, line 142: the cursor at the page margins
TableIdle == pdf_x = 10 /\ pdf_y = 10 /\ drawn = <<>>

\* section_table, lines 155-162: the title line and the header row
TableHeader ==
    /\ pc = "table_header"
    /\ LET row == table_row(pdf_x, pdf_y + 10, HeaderTexts, col_widths)
       IN  /\ drawn' = Append(drawn, row)
           /\ pdf_x' = row.x
           /\ pdf_y' = row.y
    /\ pc' = "table_rows"
    /\ UNCHANGED <<script, env, calls, start_at, rosterVars, restoreVars, auditVars>>

\* section_table, lines 167-177: one iteration of the loop over the users
TableRow ==
    /\ pc = "table_rows"
    /\ Len(drawn) <= MaxRows
    /\ \E row_texts \in [1..3 -> TextWidths] :
          LET row == table_row(pdf_x, pdf_y, row_texts, col_widths)
          IN  /\ drawn' = Append(drawn, row)
              /\ pdf_x' = row.x
              /\ pdf_y' = row.y
    /\ UNCHANGED <<script, pc, env, calls, start_at, rosterVars, restoreVars, auditVars>>

\* section_table, line 179: the gap after the table
TableEnd ==
    /\ pc = "table_rows"
    /\ pdf_y' = pdf_y + 6
    /\ pc' = "table_done"
    /\ UNCHANGED <<script, env, calls, start_at, rosterVars, restoreVars, auditVars,
                   pdf_x, drawn>>

TableNext == TableHeader \/ TableRow \/ TableEnd

\* one section of the document, on a fresh page
TableInit ==
    /\ script = "roster" /\ pc = "table_header"
    /\ env = [v \in RosterEnvVars |-> "set"]
    /\ calls = <<>> /\ start_at = 0 /\ srvIsLast = "exact"
    /\ RosterIdle /\ RestoreIdle /\ AuditIdle /\ TableIdle

TableSpec == TableInit /\ [][TableNext]_vars

-----------------------------------------------------------------------------

Next ==
    \/ RosterStart
    \/ GetUsersPage
    \/ Aggregate
    \/ FetchEmailsBatch
    \/ AttachAndRender
    \/ UploadTempFile
    \/ AttachTempFile
    \/ RestoreStart
    \/ SearchPage
    \/ ReportNotFound
    \/ RestoreAccess
    \/ AuditStart
    \/ AuditJiraPage
    \/ AuditConfluencePage
    \/ AuditUploadJira
    \/ AuditUploadConfluence

Init ==
    /\ pc = "start"
    /\ calls = <<>>
    /\ start_at = 0
    /\ RosterIdle /\ RestoreIdle /\ AuditIdle /\ TableIdle
    /\ \/ script = "roster"  /\ env \in RosterEnvs  /\ srvIsLast \in {"exact", "absent", "never"}
       \/ script = "restore" /\ env \in RestoreEnvs /\ srvIsLast = "exact"
       \/ script = "audit"   /\ env \in AuditEnvs   /\ srvIsLast = "exact"

Spec == Init /\ [][Next]_vars

-----------------------------------------------------------------------------
(* What the claims speak of *)

\* the requests get_users_in_group issued for the g-th group, in order
GroupCalls(g) == SelectSeq(calls, LAMBDA c : c.ep = "group_member" /\ c.key = GroupNames[g])

\* the bulk requests fetch_emails_in_batches issued, in order
EmailCalls == SelectSeq(calls, LAMBDA c : c.ep = "users_search")

\* the page requests fetch_account_id issued, in order
SearchCalls == SelectSeq(calls, LAMBDA c : c.ep = "users_search_page")

RestoreCalls == SelectSeq(calls, LAMBDA c : c.ep = "restore_access")

\* main of jira_group_users.py has built the buckets, the index and the id set
Aggregated == script = "roster" /\ Len(fetched) = Len(GroupNames) /\ pc # "aggregate"

\* main of jira_group_users.py has attached the emails and laid out the tables
Rendered == script = "roster" /\ rows # <<>>

\* fetch_emails_in_batches has returned
EmailsFetched ==
    \/ pc \in {"upload", "attach", "done"}
    \/ pc = "aborted" /\ calls # <<>> /\ calls[Len(calls)].ep \in {"attachTemporaryFile", "attachment"}

AccountIds(user_list) == [i \in DOMAIN user_list |-> user_list[i].accountId]

\* the records of a list as get_users_in_group returned them
AsFetched(user_list) ==
    [i \in DOMAIN user_list |->
        [accountId |-> user_list[i].accountId, displayName |-> user_list[i].displayName]]

CountId(user_list, a) == Cardinality({i \in DOMAIN user_list : user_list[i].accountId = a})

RECURSIVE Flatten(_)
Flatten(ss) == IF ss = <<>> THEN <<>> ELSE Flatten(SubSeq(ss, 1, Len(ss) - 1)) \o ss[Len(ss)]

\* a required parameter has no value, not even a default
ConfigIncomplete ==
    \/ script = "roster" /\ \E v \in RosterEnvVars : ~EnvTruthy(env, v, v \in RosterEnvDefaults)
    \/ script = "audit" /\ \E v \in {"JIRA_BASIC_TOKEN", "GOOGLE_CLOUD_BUCKET"} : ~EnvTruthy(env, v, FALSE)

\* the users of directory d whose email is the target's, case ignored
Matching(d) == {i \in 1..d.total : EmailMatches(UserAt(d, i))}

-----------------------------------------------------------------------------
(* C1 *)

\* C1 as stated: against a site that serves full pages and reports isLast
\* exactly, get_users_in_group issues exactly ceil(N/50) requests, at startAt
\* 0, 50, 100, ..., for a group of N members and returns the N users in page
\* order, none dropped, none merged.
C1_CeilRequests ==
    srvIsLast = "exact" =>
        \A g \in DOMAIN fetched :
            /\ Len(GroupCalls(g)) = CeilDiv(Len(srvGroups[g]), max_results)
            /\ \A k \in DOMAIN GroupCalls(g) : GroupCalls(g)[k].at = (k - 1) * max_results
            /\ fetched[g] = MapSeq(UserRecord, srvGroups[g])

\* C1 amended: the number of requests is ceil(N/50) for N >= 1 and 1 for an
\* empty group (the loop asks before it can know the group is empty); the
\* offsets and the returned list are as stated.
C1_PageRequests ==
    srvIsLast = "exact" =>
        \A g \in DOMAIN fetched :
            /\ Len(GroupCalls(g)) =
                  IF srvGroups[g] = <<>> THEN 1 ELSE CeilDiv(Len(srvGroups[g]), max_results)
            /\ \A k \in DOMAIN GroupCalls(g) : GroupCalls(g)[k].at = (k - 1) * max_results
            /\ fetched[g] = MapSeq(UserRecord, srvGroups[g])

\* a group of more than two pages has been fetched in three requests or more
C1_Witness ==
    /\ srvIsLast = "exact" /\ 1 \in DOMAIN fetched
    /\ Len(srvGroups[1]) > 2 * max_results
    /\ Len(GroupCalls(1)) >= 3
    /\ Len(fetched[1]) = Len(srvGroups[1])

(* C2 *)

\* C2 as stated: whatever the successful responses are, no page is requested
\* after a response that is flagged last (or has no flag, which the code
\* reads as last) or that lists no users.
C2_StopsOnLastOrEmpty ==
    \A g \in DOMAIN GroupNames :
        \A k \in DOMAIN GroupCalls(g) :
            k < Len(GroupCalls(g)) => ~GroupCalls(g)[k].last /\ GroupCalls(g)[k].n > 0

(* C3 *)

\* C3 as stated: a run whose configuration is incomplete issues no remote
\* call, and it neither completes nor ends on another error than the
\* configuration error.
C3_NoCallWhenMisconfigured ==
    ConfigIncomplete => calls = <<>> /\ pc \notin {"done", "aborted"}

(* C4 *)

\* C4 as stated: a remote call that returns a non-success status is the last
\* call of the run, and the run has aborted.
C4_FailureAborts ==
    \A i \in DOMAIN calls : ~calls[i].ok => i = Len(calls) /\ pc = "aborted"

(* C5 *)

\* C5: once main has built it, the unique-id set is the set of the accountIds
\* of the five fetched lists without None and the empty string; the list made
\* of it names each id once; and the role buckets still hold every fetched
\* user, the ones with an empty or missing id included.
C5_UniqueIds ==
    Aggregated =>
        /\ unique_account_ids =
              UNION {Range(AccountIds(fetched[g])) : g \in DOMAIN fetched} \ {None, EmptyStr}
        /\ Range(account_ids_list) = unique_account_ids
        /\ Len(account_ids_list) = Cardinality(unique_account_ids)
        /\ AccountIds(managers) = AccountIds(fetched[1])
        /\ AccountIds(all_contributors) = AccountIds(fetched[2]) \o AccountIds(fetched[3])
        /\ AccountIds(all_viewers) = AccountIds(fetched[4]) \o AccountIds(fetched[5])

\* the lists hold a user without a usable id beside a user with one
C5_Witness ==
    /\ Aggregated
    /\ unique_account_ids # {}
    /\ \E g \in DOMAIN fetched : \E i \in DOMAIN fetched[g] : ~Truthy(fetched[g][i].accountId)

(* C6 *)

\* C6: the bulk requests carry consecutive slices of the id list, of at most
\* 100 ids each, at offsets 0, 100, 200, ...: put end to end they are a
\* prefix of the list as it is now (so the list was neither changed nor
\* reordered between requests), the whole list once the resolver has
\* returned, in exactly ceil(n/100) requests; the list has no id twice, so
\* every id went out in exactly one request.
C6_Batches ==
    Aggregated =>
        LET n == Len(account_ids_list)
        IN  /\ \A j \in DOMAIN EmailCalls :
                  /\ Len(EmailCalls[j].ids) <= chunk_size
                  /\ EmailCalls[j].ids # <<>>
                  /\ EmailCalls[j].at = (j - 1) * chunk_size
            /\ Flatten([j \in DOMAIN EmailCalls |-> EmailCalls[j].ids])
                  = SubSeq(account_ids_list, 1, Min(Len(EmailCalls) * chunk_size, n))
            /\ Cardinality(Range(account_ids_list)) = n
            /\ Range(account_ids_list) = unique_account_ids
            /\ EmailsFetched => Len(EmailCalls) = CeilDiv(n, chunk_size)

\* more than 200 ids have been resolved in three requests
C6_Witness ==
    /\ script = "roster" /\ pc = "upload"
    /\ Len(account_ids_list) > 2 * chunk_size
    /\ Len(EmailCalls) = 3

(* C7 *)

\* C7: Contributors is the internal list followed by the external one, and
\* Viewers likewise, user for user; a user (an account id) in both sub-groups
\* of a role is in the bucket once per listing, so twice at least, and has
\* one entry in the membership index, which holds both group names; every
\* entry of the index holds exactly the groups that listed the account.
C7_TwiceInBucketOnceInIndex ==
    Aggregated =>
        LET ids == <<Range(AccountIds(fetched[1])), Range(AccountIds(fetched[2])),
                     Range(AccountIds(fetched[3])), Range(AccountIds(fetched[4])),
                     Range(AccountIds(fetched[5]))>>
        IN  /\ AsFetched(all_contributors) = fetched[2] \o fetched[3]
            /\ AsFetched(all_viewers) = fetched[4] \o fetched[5]
            /\ \A r \in {<<2, 3, all_contributors>>, <<4, 5, all_viewers>>} :
                  \A a \in ids[r[1]] \cap ids[r[2]] :
                      Truthy(a) =>
                          /\ CountId(r[3], a) = CountId(fetched[r[1]], a) + CountId(fetched[r[2]], a)
                          /\ CountId(r[3], a) >= 2
                          /\ a \in DOMAIN user_groups
                          /\ {GroupNames[r[1]], GroupNames[r[2]]} \subseteq user_groups[a]
            /\ DOMAIN user_groups = {a \in UNION Range(ids) : Truthy(a)}
            /\ \A a \in DOMAIN user_groups :
                  user_groups[a] = {GroupNames[g] : g \in {h \in DOMAIN fetched : a \in ids[h]}}

\* an account is in CONTRIBUTORS and in EXTERNAL-CONTRIBUTORS
C7_Witness ==
    /\ Aggregated
    /\ \E a \in Range(AccountIds(fetched[2])) \cap Range(AccountIds(fetched[3])) :
          /\ Truthy(a)
          /\ CountId(all_contributors, a) = 2
          /\ user_groups[a] = {"CONTRIBUTORS", "EXTERNAL-CONTRIBUTORS"}

(* C8 *)

\* C8 as stated: after attach_email every record of every bucket has an
\* emailAddress, the email_map entry of its accountId or "" when there is
\* none; and the row drawn for a record whose email is empty shows the
\* record's accountId, which is a string.
C8_EmailOrAccountId ==
    Rendered =>
        \A b \in {<<1, managers>>, <<2, all_contributors>>, <<3, all_viewers>>} :
            \A i \in DOMAIN b[2] :
                LET u == b[2][i]
                    r == RowTexts(u, user_groups)
                IN  /\ "emailAddress" \in DOMAIN u
                    /\ u.emailAddress = Get(email_map, u.accountId, EmptyStr)
                    /\ r \in Range(rows[b[1]])
                    /\ u.emailAddress = EmptyStr => r.email = u.accountId /\ r.email # None

(* C9 *)

\* C9 as stated: when fetch_account_id has returned, either some user has the
\* target's email, and then the scan ended at the first such user (no user
\* after it was examined, no page after its page was requested) with that
\* user's account id; or none has, and then every user was examined, the
\* pages were requested up to the first empty one, and the result is None.
C9_StopsAtMatch ==
    script = "restore" /\ pc \in {"lookup_done", "done"} =>
        LET d == srvUsers[1]
        IN  IF Matching(d) # {}
            THEN LET m == CHOOSE i \in Matching(d) : \A k \in Matching(d) : i <= k
                 IN  /\ scanned = m
                     /\ Len(SearchCalls) = CeilDiv(m, search_max_results)
                     /\ found_account_id = Get(UserAt(d, m), "accountId", EmptyStr)
            ELSE /\ scanned = d.total
                 /\ Len(SearchCalls) = CeilDiv(d.total, search_max_results) + 1
                 /\ \A k \in DOMAIN SearchCalls : SearchCalls[k].n = 0 <=> k = Len(SearchCalls)
                 /\ found_account_id = None

(* C10 *)

\* C10: the restore-access endpoint is called at most once, as the last call
\* of the run, with the non-empty account id of a user whose email is the
\* target's; a run that found no account ends normally with the not-found
\* message as its only output and no restore-access call; every run that
\* ends normally has written its output to the result file; and a run aborts
\* only on a failed page request of the lookup.
C10_NotFoundIsReported ==
    script = "restore" =>
        /\ Len(RestoreCalls) <= 1
        /\ \A j \in DOMAIN RestoreCalls :
              /\ RestoreCalls[j].ids = <<found_account_id>>
              /\ Truthy(found_account_id)
              /\ calls[Len(calls)].ep = "restore_access"
              /\ \E i \in Matching(srvUsers[1]) :
                    Get(UserAt(srvUsers[1], i), "accountId", EmptyStr) = found_account_id
        /\ pc = "done" /\ ~Truthy(found_account_id) =>
              /\ output_lines = <<"not_found_message">>
              /\ RestoreCalls = <<>>
        /\ pc = "done" => result_file = output_lines /\ output_lines # <<>>
        /\ pc # "done" => result_file = <<"absent">>
        /\ pc = "aborted" => ~calls[Len(calls)].ok /\ calls[Len(calls)].ep = "users_search_page"

\* a lookup over a directory of several pages found no account and the run
\* ended with the message in the result file
C10_Witness ==
    /\ script = "restore" /\ pc = "done"
    /\ ~Truthy(found_account_id)
    /\ Len(SearchCalls) >= 3
    /\ result_file = <<"not_found_message">>

-----------------------------------------------------------------------------
(* C11 *)

\* the stage of main of jira_group_users.py a remote call belongs to
StageOfCall(c) ==
    CASE c.ep = "group_member" -> 1
      [] c.ep = "users_search" -> 3
      [] OTHER -> 4

\* the stage the run is in: 0 before the first fetch, 1 fetching, 2 about to
\* build the buckets, the index and the id set, 3 resolving emails, 4 rendered
\* and publishing; a run that aborted stays in the stage of its failed call
RosterStage ==
    CASE pc \in {"start", "config_error"} -> 0
      [] pc = "fetch" -> 1
      [] pc = "aggregate" -> 2
      [] pc = "emails" -> 3
      [] pc \in {"upload", "attach", "done"} -> 4
      [] OTHER -> IF calls = <<>> THEN 0 ELSE StageOfCall(calls[Len(calls)])

\* C11 as stated: the stages run in the order fetch, deduplicate, resolve
\* emails, aggregate, so the aggregator's output (the role buckets and the
\* membership index) exists only once email resolution has finished.
C11_AggregateAfterResolve ==
    script = "roster" /\ (managers # <<>> \/ all_contributors # <<>> \/ user_groups # <<>>)
        => EmailsFetched

\* C11, amended: the stages run in the order fetch, aggregate and deduplicate,
\* resolve emails, attach and render, publish. The remote calls are issued in
\* stage order and none belongs to a stage after the current one; a stage is
\* running only when every earlier stage has its full output (all five groups
\* fetched to their last page; buckets, index and id set built from them;
\* every id sent in a successful email request and the tables laid out), and
\* while it runs no later stage has produced anything.
C11_StagesForward ==
    script = "roster" =>
        LET st == RosterStage
        IN  /\ \A j \in DOMAIN calls :
                  /\ StageOfCall(calls[j]) <= st
                  /\ j > 1 => StageOfCall(calls[j - 1]) <= StageOfCall(calls[j])
            /\ st >= 2 =>
                  /\ Len(fetched) = Len(GroupNames) /\ users = <<>>
                  /\ \A g \in DOMAIN GroupNames :
                        /\ GroupCalls(g) # <<>>
                        /\ GroupCalls(g)[Len(GroupCalls(g))].ok
                        /\ GroupCalls(g)[Len(GroupCalls(g))].last
            /\ st >= 3 =>
                  /\ AsFetched(managers) = fetched[1]
                  /\ AsFetched(all_contributors) = fetched[2] \o fetched[3]
                  /\ AsFetched(all_viewers) = fetched[4] \o fetched[5]
                  /\ user_groups = GroupIndex(fetched, Len(GroupNames))
                  /\ Range(account_ids_list) = unique_account_ids
                  /\ unique_account_ids =
                        {a \in Range(AccountIds(Flatten(fetched))) : Truthy(a)}
            /\ st >= 4 =>
                  /\ \A a \in Range(account_ids_list) :
                        \E k \in DOMAIN EmailCalls :
                            EmailCalls[k].ok /\ a \in Range(EmailCalls[k].ids)
                  /\ Len(rows) = 3
            /\ st < 3 =>
                  /\ managers = <<>> /\ all_contributors = <<>> /\ all_viewers = <<>>
                  /\ user_groups = <<>> /\ account_ids_list = <<>> /\ email_map = <<>>
            /\ st < 4 => rows = <<>> /\ temp_ids = <<>>
            /\ st < 2 => Len(fetched) < Len(GroupNames)

\* a run went through every stage: a group of several pages, several email
\* requests, the upload and the attach request
C11_Witness ==
    /\ script = "roster" /\ pc = "done"
    /\ \E g \in DOMAIN GroupNames : Len(GroupCalls(g)) >= 2
    /\ Len(EmailCalls) >= 2
    /\ calls[Len(calls)].ep = "attachment"

-----------------------------------------------------------------------------
(* C12 *)

\* C12 as stated: the permanent-attach request is issued at most once, and
\* exactly once in a run that completes; the call right before it is the
\* temporary upload, which succeeded; and its temporaryAttachmentIds is the
\* list of handles that upload returned, in order, which is not empty.
C12_AttachAfterUpload ==
    script = "roster" =>
        /\ Cardinality({j \in DOMAIN calls : calls[j].ep = "attachment"}) <= 1
        /\ pc = "done" => \E j \in DOMAIN calls : calls[j].ep = "attachment"
        /\ \A j \in DOMAIN calls :
              calls[j].ep = "attachment" =>
                  /\ j > 1
                  /\ calls[j - 1].ep = "attachTemporaryFile" /\ calls[j - 1].ok
                  /\ calls[j].ids = temp_ids
                  /\ Len(calls[j].ids) = calls[j - 1].n
                  /\ calls[j].ids # <<>>

-----------------------------------------------------------------------------
(* C13 *)

\* C13 as stated: for every row drawn, with m the largest number of lines any
\* of its cells needs (an empty cell takes one line), the cursor has advanced
\* by m line heights, and every cell of the row is drawn m line heights tall,
\* at the row's top.
C13_RowHeight ==
    \A r \in DOMAIN drawn :
        LET row == drawn[r]
            m == MaxNumLines(row.col_texts, col_widths, Len(row.col_texts))
        IN  /\ row.y - row.y0 = m * line_height
            /\ \A i \in DOMAIN row.cells :
                  /\ nb_lines(row.col_texts[i], col_widths[i]) <= m
                  /\ row.cells[i].y = row.y0
                  /\ row.cells[i].h = m * line_height

-----------------------------------------------------------------------------
(* C14 *)

\* the page requests of the audit fetch of product k (1 Jira, 2 Confluence)
AuditCalls(k) ==
    SelectSeq(calls, LAMBDA c : c.ep = IF k = 1 THEN "jira_audit" ELSE "confluence_audit")

\* what the fetch of product k returned to main
AuditReturned(k) == IF k = 1 THEN jira_records ELSE confluence_records

\* C14: for each product, holding N records, the requests are at offsets 0,
\* 1000, 2000, ...; each is served the records from its offset on, 1000 at
\* most; every request but the last succeeded with a full page, so there are
\* at most N div 1000 + 1 of them and the loop ends; when the last one
\* succeeded with a short page the fetch has returned the N records in page
\* order after exactly N div 1000 + 1 requests (the last page is empty when N
\* is a multiple of 1000); until then, and when a request failed, which ends
\* the run, nothing is returned.
C14_AuditPaging ==
    script = "audit" =>
        \A k \in {1, 2} :
            LET ac == AuditCalls(k)
                m == Len(ac)
            IN  /\ \A j \in 1..m :
                      /\ ac[j].at = (j - 1) * limit
                      /\ j < m => ac[j].ok /\ ac[j].n = limit
                      /\ ac[j].ok => /\ k \in DOMAIN srvAudit
                                     /\ ac[j].n = Min(limit, Max(0, srvAudit[k] - ac[j].at))
                      /\ ~ac[j].ok => pc = "aborted" /\ calls[Len(calls)] = ac[j]
                /\ k \in DOMAIN srvAudit => m <= srvAudit[k] \div limit + 1
                /\ IF m > 0 /\ ac[m].ok /\ ac[m].n < limit
                   THEN /\ AuditReturned(k) = [i \in 1..srvAudit[k] |-> i]
                        /\ m = srvAudit[k] \div limit + 1
                   ELSE AuditReturned(k) = <<>>

\* Jira holds exactly two full pages: three requests, the third one served
\* an empty page, and the 2000 records returned
C14_Witness ==
    /\ script = "audit"
    /\ Len(AuditCalls(1)) = 3
    /\ AuditCalls(1)[3].ok /\ AuditCalls(1)[3].n = 0
    /\ Len(jira_records) = 2 * limit
    /\ pc = "confluence"

====
